---- MODULE Spec2Model ----
(***************************************************************************)
(* Match chain table of vxsig (vxsig/match_chain_table.h).                 *)
(*                                                                         *)
(* A MatchChainTable is a vector of MatchChainColumns.  Every column owns  *)
(* three address-keyed maps (functions, basic blocks, instructions) and    *)
(* two id-keyed secondary maps.  Pointers to entities are modelled by the  *)
(* key of the entity in the owning map of its column: the owning maps      *)
(* never erase or move an entity.                                          *)
(*                                                                         *)
(* The header declares the types and the operations; the bodies of the     *)
(* operations are not part of the header and are modelled from the         *)
(* written specification of the table (sections 4.1 to 4.5).               *)
(***************************************************************************)
EXTENDS Integers, FiniteSets, Sequences, TLC

VARIABLES
    function_filter,           \* column -> FunctionFilterMode
    filtered_functions,        \* column -> set of addresses
    functions_by_address,      \* column -> (address -> MatchedFunction)
    basic_blocks_by_address,   \* column -> (address -> MatchedBasicBlock)
    instructions_by_address,   \* column -> (address -> MatchedInstruction)
    functions_by_id,           \* column -> (Ident -> MatchedFunction*)
    basic_blocks_by_id,        \* column -> (Ident -> MatchedBasicBlock*)
    workload,                  \* matches the loaders still have to offer
    pc,                        \* position of the pipeline driving the table
    builds,                    \* BuildIdIndices calls made in a row
    ret,                       \* the pointer the last call returned
    aborted                    \* a contract violation ended the process

vars == <<function_filter, filtered_functions, functions_by_address,
          basic_blocks_by_address, instructions_by_address, functions_by_id,
          basic_blocks_by_id, workload, pc, builds, ret,
          aborted>>

indices == <<functions_by_address, basic_blocks_by_address,
             instructions_by_address, functions_by_id, basic_blocks_by_id>>

config == <<function_filter, filtered_functions>>

----------------------------------------------------------------------------
(* Bounds of the model.                                                    *)

\* Index of the last column: the table has LastCol + 1 columns (binaries).
LastCol == 2
\* Addresses are 0 .. MaxAddr; 0 is the sentinel of address_in_next.
MaxAddr == 2
\* Most BuildIdIndices calls made in a row.
MaxBuilds == 2

Columns == 0 .. LastCol
\* Columns filled from a diff result; the last column is filled by
\* FinishChain alone (one more binary than diff results).
DiffColumns == 0 .. (LastCol - 1)
\* Primary addresses the loaders offer.
Addresses == 1 .. MaxAddr
\* Values of address_in_next the loaders offer (0: no counterpart).
NextAddresses == 0 .. MaxAddr
MemoryAddressPairs == Addresses \X NextAddresses
\* The input of a run, as <<function matches, basic block matches,
\* instruction matches, filter settings, builds of the id indices before
\* the propagation>>: three function matches; two functions with a basic
\* block; one function with a basic block and an instruction; or two
\* filter settings followed by one function match.
Workloads ==
    {<<3, 0, 0, 0, 1>>, <<2, 1, 0, 0, 0>>, <<1, 1, 1, 0, 1>>, <<1, 0, 0, 2, 0>>}

FILTER_NONE == "FILTER_NONE"
FILTER_BLACKLIST == "FILTER_BLACKLIST"
FILTER_WHITELIST == "FILTER_WHITELIST"
FunctionFilterMode == {FILTER_NONE, FILTER_BLACKLIST, FILTER_WHITELIST}

\* The null pointer; a pointer to an entity is <<level, column, address>>.
nullptr == <<>>
EmptyIndex == <<>>

Min(S) == CHOOSE x \in S : \A y \in S : x <= y

----------------------------------------------------------------------------
(* Entities.                                                               *)

MatchedMemoryAddress(from_match) ==
    [address |-> from_match[1], address_in_next |-> from_match[2], id |-> 0]

MatchedInstruction(from_match) ==
    [match |-> MatchedMemoryAddress(from_match)]

MatchedBasicBlock(from_match) ==
    [match |-> MatchedMemoryAddress(from_match), instructions |-> {}]

MatchedFunction(from_match) ==
    [match |-> MatchedMemoryAddress(from_match), basic_blocks |-> {}]


----------------------------------------------------------------------------
(* Column: insertion.                                                      *)

\* IsFiltered that rejects nothing.
IsFilteredNever(c, address) == FALSE

\* IsFiltered with the two modes exchanged.
IsFilteredSwapped(c, address) ==
    \/ function_filter[c] = FILTER_WHITELIST /\ address \in filtered_functions[c]
    \/ function_filter[c] = FILTER_BLACKLIST /\ address \notin filtered_functions[c]

\* The function filter of InsertFunctionMatch.
IsFiltered(c, address) ==
    \/ function_filter[c] = FILTER_BLACKLIST /\ address \in filtered_functions[c]
    \/ function_filter[c] = FILTER_WHITELIST /\ address \notin filtered_functions[c]

\* InsertKey keyed by the address in the next binary.
InsertKeyNext(match) == match[2]

\* Key under which an insertion stores the new entity.
InsertKey(match) == match[1]

\* Abort that reports nothing: the call returns and the process goes on.
AbortIgnored ==
    /\ ret' = nullptr
    /\ builds' = 0
    /\ UNCHANGED <<config, indices, workload, pc, aborted>>

\* A duplicate address is a contract violation: the process ends.
Abort ==
    /\ aborted' = TRUE
    /\ ret' = nullptr
    /\ builds' = 0
    /\ UNCHANGED <<config, indices, workload, pc>>

\* The filter is set before the population of the table begins.
set_function_filter(c, value) ==
    /\ pc = "populate" /\ ~aborted
    /\ \A d \in Columns : functions_by_address[d] = EmptyIndex
    /\ workload[4] > 0
    /\ function_filter[c] # value
    /\ function_filter' = [function_filter EXCEPT ![c] = value]
    /\ workload' = [workload EXCEPT ![4] = @ - 1]
    /\ UNCHANGED <<filtered_functions, indices, pc, builds, ret, aborted>>

AddFilteredFunction(c, address) ==
    /\ pc = "populate" /\ ~aborted
    /\ \A d \in Columns : functions_by_address[d] = EmptyIndex
    /\ workload[4] > 0
    /\ address \notin filtered_functions[c]
    /\ filtered_functions' = [filtered_functions EXCEPT ![c] = @ \cup {address}]
    /\ workload' = [workload EXCEPT ![4] = @ - 1]
    /\ UNCHANGED <<function_filter, indices, pc, builds, ret, aborted>>

InsertFunctionMatch(c, match) ==
    /\ pc = "populate" /\ ~aborted
    /\ IF IsFiltered(c, match[1])
       THEN /\ ret' = nullptr
            /\ builds' = 0
            /\ UNCHANGED <<config, indices, workload, pc, aborted>>
       ELSE IF match[1] \in DOMAIN functions_by_address[c]
       THEN Abort
       ELSE /\ workload[1] > 0
            /\ workload' = [workload EXCEPT ![1] = @ - 1]
            /\ functions_by_address' =
                 [functions_by_address EXCEPT
                    ![c] = @ @@ (InsertKey(match) :> MatchedFunction(match))]
            /\ ret' = <<"function", c, match[1]>>
            /\ builds' = 0
            /\ UNCHANGED <<config, basic_blocks_by_address,
                           instructions_by_address, functions_by_id,
                           basic_blocks_by_id, pc, aborted>>

\* function: the address of a function this column owns.
InsertBasicBlockMatch(c, function, match) ==
    /\ pc = "populate" /\ ~aborted
    /\ function \in DOMAIN functions_by_address[c]
    /\ IF match[1] \in DOMAIN basic_blocks_by_address[c]
       THEN Abort
       ELSE /\ workload[2] > 0
            /\ workload' = [workload EXCEPT ![2] = @ - 1]
            /\ basic_blocks_by_address' =
                 [basic_blocks_by_address EXCEPT
                    ![c] = @ @@ (InsertKey(match) :> MatchedBasicBlock(match))]
            /\ functions_by_address' =
                 [functions_by_address EXCEPT
                    ![c][function].basic_blocks = @ \cup {match[1]}]
            /\ ret' = <<"basic_block", c, match[1]>>
            /\ builds' = 0
            /\ UNCHANGED <<config, instructions_by_address, functions_by_id,
                           basic_blocks_by_id, pc, aborted>>

\* basic_block: the address of a basic block this column owns.
InsertInstructionMatch(c, basic_block, match) ==
    /\ pc = "populate" /\ ~aborted
    /\ basic_block \in DOMAIN basic_blocks_by_address[c]
    /\ IF match[1] \in DOMAIN instructions_by_address[c]
       THEN Abort
       ELSE /\ workload[3] > 0
            /\ workload' = [workload EXCEPT ![3] = @ - 1]
            /\ instructions_by_address' =
                 [instructions_by_address EXCEPT
                    ![c] = @ @@ (InsertKey(match) :> MatchedInstruction(match))]
            /\ basic_blocks_by_address' =
                 [basic_blocks_by_address EXCEPT
                    ![c][basic_block].instructions = @ \cup {match[1]}]
            /\ ret' = <<"instruction", c, match[1]>>
            /\ builds' = 0
            /\ UNCHANGED <<config, functions_by_address, functions_by_id,
                           basic_blocks_by_id, pc, aborted>>

----------------------------------------------------------------------------
(* Column: lookup.                                                         *)

FindFunctionByAddress(c, address) ==
    IF address \in DOMAIN functions_by_address[c]
    THEN <<"function", c, address>> ELSE nullptr

FindBasicBlockByAddress(c, address) ==
    IF address \in DOMAIN basic_blocks_by_address[c]
    THEN <<"basic_block", c, address>> ELSE nullptr

FindInstructionByAddress(c, address) ==
    IF address \in DOMAIN instructions_by_address[c]
    THEN <<"instruction", c, address>> ELSE nullptr

FindFunctionById(c, id) ==
    IF id \in DOMAIN functions_by_id[c]
    THEN <<"function", c, functions_by_id[c][id]>> ELSE nullptr

FindBasicBlockById(c, id) ==
    IF id \in DOMAIN basic_blocks_by_id[c]
    THEN <<"basic_block", c, basic_blocks_by_id[c][id]>> ELSE nullptr

----------------------------------------------------------------------------
(* Chain termination.                                                      *)

\* TerminalMatch keeping the address as its own successor.
TerminalMatchSelf(address_in_next) == <<address_in_next, address_in_next>>

\* The match FinishChain adds for an address_in_next of the previous
\* column: that address, mapped to address zero.
TerminalMatch(address_in_next) == <<address_in_next, 0>>

\* Successors that takes the sentinel for an address.
SuccessorsWithSentinel(index, keys) ==
    {index[a].match.address_in_next : a \in keys}

\* The addresses the entities `keys` of `index` have in the next binary.
Successors(index, keys) ==
    {index[a].match.address_in_next : a \in keys} \ {0}

\* Terminate that creates no entry.
TerminateNone(cur, targets, level) == cur

\* cur with an entry created (or reused) for every successor address.
Terminate(cur, targets, level) ==
    [t \in (DOMAIN cur) \cup targets |->
        IF t \in DOMAIN cur THEN cur[t]
        ELSE CASE level = "function" -> MatchedFunction(TerminalMatch(t))
               [] level = "basic_block" -> MatchedBasicBlock(TerminalMatch(t))
               [] level = "instruction" -> MatchedInstruction(TerminalMatch(t))]

FinishChain(c, prev) ==
    LET pf == functions_by_address[prev]
        pb == basic_blocks_by_address[prev]
        pi == instructions_by_address[prev]
        nf == Terminate(functions_by_address[c],
                        Successors(pf, DOMAIN pf), "function")
        nb == Terminate(basic_blocks_by_address[c],
                        Successors(pb, DOMAIN pb), "basic_block")
        ni == Terminate(instructions_by_address[c],
                        Successors(pi, DOMAIN pi), "instruction")
        \* the entities of prev whose counterpart is the entity at t
        Sources(index, t) ==
            {a \in DOMAIN index : index[a].match.address_in_next = t}
    IN
    /\ pc = "populate" /\ ~aborted
    /\ functions_by_address' =
         [functions_by_address EXCEPT ![c] =
            [t \in DOMAIN nf |->
               [nf[t] EXCEPT !.basic_blocks = @ \cup
                  UNION {Successors(pb, pf[a].basic_blocks) :
                           a \in Sources(pf, t)}]]]
    /\ basic_blocks_by_address' =
         [basic_blocks_by_address EXCEPT ![c] =
            [t \in DOMAIN nb |->
               [nb[t] EXCEPT !.instructions = @ \cup
                  UNION {Successors(pi, pb[a].instructions) :
                           a \in Sources(pb, t)}]]]
    /\ instructions_by_address' =
         [instructions_by_address EXCEPT ![c] = ni]
    /\ pc' = "finished"
    /\ ret' = nullptr
    /\ builds' = 0
    /\ UNCHANGED <<config, functions_by_id, basic_blocks_by_id, workload,
                   aborted>>

----------------------------------------------------------------------------
(* Identity propagation.                                                   *)

\* The id of the first match of the master column.
FirstId == 0

Max(S) == CHOOSE x \in S : \A y \in S : x >= y

\* SeedIds storing the position counted from one.
RECURSIVE SeedIdsFromOne(_, _, _)
SeedIdsFromOne(index, keys, id) ==
    IF keys = {} THEN index
    ELSE LET a == Min(keys)
         IN  SeedIdsFromOne([index EXCEPT ![a].match.id = id + 1],
                            keys \ {a}, id + 1)

\* SeedIds enumerating by descending address.
RECURSIVE SeedIdsDescending(_, _, _)
SeedIdsDescending(index, keys, id) ==
    IF keys = {} THEN index
    ELSE LET a == Max(keys)
         IN  SeedIdsDescending([index EXCEPT ![a].match.id = id],
                               keys \ {a}, id + 1)

\* Enumerates the entities `keys` of the index by ascending address and
\* stores the position of each in its id member, starting at id.
RECURSIVE SeedIds(_, _, _)
SeedIds(index, keys, id) ==
    IF keys = {} THEN index
    ELSE LET a == Min(keys)
         IN  SeedIds([index EXCEPT ![a].match.id = id], keys \ {a}, id + 1)

\* ThreadedId counting the link.
ThreadedIdNext(predecessor) == predecessor.match.id + 1

\* The id a match of column i gets from its predecessor in column i-1.
ThreadedId(predecessor) == predecessor.match.id

\* Forward threading of the entities `keys` of column i-1 (index prev), by
\* ascending address, into the entities `scope` of column i (index next).
RECURSIVE ThreadIds(_, _, _, _)
ThreadIds(prev, next, keys, scope) ==
    IF keys = {} THEN next
    ELSE LET a == Min(keys)
             t == prev[a].match.address_in_next
             found == t # 0 /\ t \in DOMAIN next /\ t \in scope
         IN  ThreadIds(prev,
                       IF found
                       THEN [next EXCEPT ![t].match.id = ThreadedId(prev[a])]
                       ELSE next,
                       keys \ {a}, scope)

\* Seeding of the basic blocks, within each function of the master column.
RECURSIVE SeedBasicBlocks(_, _, _)
SeedBasicBlocks(functions, blocks, keys) ==
    IF keys = {} THEN blocks
    ELSE LET a == Min(keys)
         IN  SeedBasicBlocks(functions,
                             SeedIds(blocks, functions[a].basic_blocks, FirstId),
                             keys \ {a})

\* ThreadBasicBlocks that makes the ids of the basic blocks unique in the
\* column by adding the id the counterpart function has when it is visited.
RECURSIVE ThreadBasicBlocksOffset(_, _, _, _, _)
ThreadBasicBlocksOffset(pf, pb, nf, nb, keys) ==
    IF keys = {} THEN nb
    ELSE LET a == Min(keys)
             t == pf[a].match.address_in_next
             found == t # 0 /\ t \in DOMAIN nf
             sources(y) == {b \in pf[a].basic_blocks :
                              pb[b].match.address_in_next = y}
         IN  ThreadBasicBlocksOffset(pf, pb, nf,
                 IF found
                 THEN [y \in DOMAIN nb |->
                         IF y \in nf[t].basic_blocks /\ sources(y) # {}
                         THEN [nb[y] EXCEPT !.match.id =
                                 pb[Max(sources(y))].match.id + nf[t].match.id]
                         ELSE nb[y]]
                 ELSE nb,
                 keys \ {a})

\* Forward threading of the basic blocks, within each function of column
\* i-1 and among the basic blocks of its counterpart in column i.
RECURSIVE ThreadBasicBlocks(_, _, _, _, _)
ThreadBasicBlocks(pf, pb, nf, nb, keys) ==
    IF keys = {} THEN nb
    ELSE LET a == Min(keys)
             t == pf[a].match.address_in_next
             found == t # 0 /\ t \in DOMAIN nf
         IN  ThreadBasicBlocks(pf, pb, nf,
                 IF found
                 THEN ThreadIds(pb, nb, pf[a].basic_blocks, nf[t].basic_blocks)
                 ELSE nb,
                 keys \ {a})

\* PropagateFrom that gives up at the first column a successor is missing
\* from.
RECURSIVE PropagateFromStopping(_, _, _)
PropagateFromStopping(F, B, i) ==
    IF i > LastCol THEN <<F, B>>
    ELSE IF \E a \in DOMAIN F[i - 1] :
               /\ F[i - 1][a].match.address_in_next # 0
               /\ F[i - 1][a].match.address_in_next \notin DOMAIN F[i]
    THEN <<F, B>>
    ELSE LET Fi == ThreadIds(F[i - 1], F[i], DOMAIN F[i - 1], DOMAIN F[i])
             Bi == ThreadBasicBlocks(F[i - 1], B[i - 1], F[i], B[i],
                                     DOMAIN F[i - 1])
         IN  PropagateFromStopping([F EXCEPT ![i] = Fi],
                                   [B EXCEPT ![i] = Bi], i + 1)

\* Columns i .. LastCol threaded, one after the other; the result is the
\* pair of the function indices and the basic block indices of the table.
RECURSIVE PropagateFrom(_, _, _)
PropagateFrom(F, B, i) ==
    IF i > LastCol THEN <<F, B>>
    ELSE LET Fi == ThreadIds(F[i - 1], F[i], DOMAIN F[i - 1], DOMAIN F[i])
             Bi == ThreadBasicBlocks(F[i - 1], B[i - 1], F[i], B[i],
                                     DOMAIN F[i - 1])
         IN  PropagateFrom([F EXCEPT ![i] = Fi], [B EXCEPT ![i] = Bi], i + 1)

PropagateIds ==
    LET F0 == SeedIds(functions_by_address[0],
                      DOMAIN functions_by_address[0], FirstId)
        B0 == SeedBasicBlocks(functions_by_address[0],
                              basic_blocks_by_address[0],
                              DOMAIN functions_by_address[0])
        table == PropagateFrom([functions_by_address EXCEPT ![0] = F0],
                               [basic_blocks_by_address EXCEPT ![0] = B0], 1)
    IN
    /\ pc \in {"finished", "indexed"} /\ ~aborted
    /\ functions_by_address' = table[1]
    /\ basic_blocks_by_address' = table[2]
    /\ pc' = "propagated"
    /\ ret' = nullptr
    /\ builds' = 0
    /\ UNCHANGED <<config, instructions_by_address, functions_by_id,
                   basic_blocks_by_id, workload, aborted>>

----------------------------------------------------------------------------
(* Identity indices.                                                       *)

\* IdIndex that only clears the index when it was built by the last call.
RECURSIVE IdIndexOnce(_, _, _)
IdIndexOnce(index, keys, by_id) ==
    IF keys = {} \/ builds >= 1 THEN by_id
    ELSE LET a == Min(keys)
             id == index[a].match.id
         IN  IdIndexOnce(index, keys \ {a},
                         [k \in (DOMAIN by_id) \cup {id} |->
                            IF k = id THEN a ELSE by_id[k]])

\* The id index of an owning index: the entities are enumerated by
\* ascending address and each is recorded under its id.
RECURSIVE IdIndex(_, _, _)
IdIndex(index, keys, by_id) ==
    IF keys = {} THEN by_id
    ELSE LET a == Min(keys)
             id == index[a].match.id
         IN  IdIndex(index, keys \ {a},
                     [k \in (DOMAIN by_id) \cup {id} |->
                        IF k = id THEN a ELSE by_id[k]])

\* MatchChainColumn::BuildIdIndices of every column of the table.
BuildIdIndices ==
    /\ pc \in {"finished", "indexed", "propagated"} /\ ~aborted
    /\ pc = "finished" => workload[5] > 0
    /\ builds < MaxBuilds
    /\ functions_by_id' =
         [c \in Columns |->
            IdIndex(functions_by_address[c],
                    DOMAIN functions_by_address[c], EmptyIndex)]
    /\ basic_blocks_by_id' =
         [c \in Columns |->
            IdIndex(basic_blocks_by_address[c],
                    DOMAIN basic_blocks_by_address[c], EmptyIndex)]
    /\ pc' = IF pc = "finished" THEN "indexed" ELSE pc
    /\ builds' = builds + 1
    /\ ret' = nullptr
    /\ workload' = IF pc = "finished"
                   THEN [workload EXCEPT ![5] = @ - 1] ELSE workload
    /\ UNCHANGED <<config, functions_by_address, basic_blocks_by_address,
                   instructions_by_address, aborted>>

----------------------------------------------------------------------------

Init ==
    /\ function_filter = [c \in Columns |-> FILTER_NONE]
    /\ filtered_functions = [c \in Columns |-> {}]
    /\ functions_by_address = [c \in Columns |-> EmptyIndex]
    /\ basic_blocks_by_address = [c \in Columns |-> EmptyIndex]
    /\ instructions_by_address = [c \in Columns |-> EmptyIndex]
    /\ functions_by_id = [c \in Columns |-> EmptyIndex]
    /\ basic_blocks_by_id = [c \in Columns |-> EmptyIndex]
    /\ workload \in Workloads
    /\ pc = "populate"
    /\ builds = 0
    /\ ret = nullptr
    /\ aborted = FALSE

\* The table is being populated.
Loading == pc = "populate" /\ ~aborted

Next ==
    \/ Loading /\ \E c \in Columns, value \in FunctionFilterMode :
          set_function_filter(c, value)
    \/ Loading /\ \E c \in Columns, address \in Addresses :
          AddFilteredFunction(c, address)
    \/ Loading /\ \E c \in DiffColumns, match \in MemoryAddressPairs :
          InsertFunctionMatch(c, match)
    \/ Loading /\ \E c \in DiffColumns, function \in Addresses,
                     match \in MemoryAddressPairs :
          InsertBasicBlockMatch(c, function, match)
    \/ Loading /\ \E c \in DiffColumns, basic_block \in Addresses,
                     match \in MemoryAddressPairs :
          InsertInstructionMatch(c, basic_block, match)
    \/ FinishChain(LastCol, LastCol - 1)
    \/ PropagateIds
    \/ BuildIdIndices

Spec == Init /\ [][Next]_vars

----------------------------------------------------------------------------
(* Properties.                                                             *)

OwningIndices ==
    <<functions_by_address, basic_blocks_by_address, instructions_by_address>>

Ids(index) == {index[a].match.id : a \in DOMAIN index}

\* C1: in every column, each of the three owning address indices holds no
\* two entities with the same primary address, and every entity is stored
\* under the key equal to its own match.address.
C1_UniqueAddresses ==
    \A l \in 1..3 : \A c \in Columns :
        LET index == OwningIndices[l][c]
        IN  /\ \A k \in DOMAIN index : index[k].match.address = k
            /\ \A k1, k2 \in DOMAIN index :
                  index[k1].match.address = index[k2].match.address => k1 = k2

\* Insertions into all three indices and FinishChain have acted.
C1_Witness ==
    /\ pc = "finished"
    /\ instructions_by_address[LastCol - 1] # EmptyIndex
    /\ \A l \in 1..3 : OwningIndices[l][LastCol] # EmptyIndex

\* C2: after PropagateIds the ids of the k functions of column 0 are exactly
\* 0 .. k-1, and the id of each is the rank of its address among the
\* addresses of the functions of column 0.
C2_SeedRanks ==
    pc = "propagated" =>
        LET F == functions_by_address[0]
        IN  /\ Ids(F) = 0 .. (Cardinality(DOMAIN F) - 1)
            /\ \A a \in DOMAIN F :
                  F[a].match.id = Cardinality({b \in DOMAIN F : b < a})

\* PropagateIds has run on a table whose column 0 holds two functions.
C2_Witness ==
    /\ pc = "propagated"
    /\ Cardinality(DOMAIN functions_by_address[0]) >= 2

\* The functions of column i-1 whose address_in_next is t.
Predecessors(i, t) ==
    {a \in DOMAIN functions_by_address[i - 1] :
        functions_by_address[i - 1][a].match.address_in_next = t}

\* C3 as claimed: after PropagateIds, a function of column i whose address
\* is the non-sentinel address_in_next of a function of column i-1 has the
\* id of that function.
C3_ForwardThreading ==
    pc = "propagated" =>
        \A i \in 1..LastCol : \A a \in DOMAIN functions_by_address[i - 1] :
            LET f == functions_by_address[i - 1][a]
                t == f.match.address_in_next
            IN  (t # 0 /\ t \in DOMAIN functions_by_address[i]) =>
                    functions_by_address[i][t].match.id = f.match.id

\* C3 as amended: the same, for a function of column i-1 that is the only
\* function of its column with that address_in_next.
C3_ForwardThreadingUnique ==
    pc = "propagated" =>
        \A i \in 1..LastCol : \A a \in DOMAIN functions_by_address[i - 1] :
            LET f == functions_by_address[i - 1][a]
                t == f.match.address_in_next
            IN  (t # 0 /\ t \in DOMAIN functions_by_address[i]
                       /\ Predecessors(i, t) = {a}) =>
                    functions_by_address[i][t].match.id = f.match.id

\* An id other than 0 was threaded from column 0 into column 1.
C3_Witness ==
    /\ pc = "propagated"
    /\ \E a \in DOMAIN functions_by_address[0] :
          LET f == functions_by_address[0][a]
              t == f.match.address_in_next
          IN  /\ f.match.id = 1
              /\ t \in DOMAIN functions_by_address[1]
              /\ Predecessors(1, t) = {a}
              /\ functions_by_address[1][t].match.id = 1

\* C4 as claimed: after PropagateIds no two functions of a column have the
\* same id, and no two basic blocks of a function have the same id.
C4_OnePerIdentity ==
    pc = "propagated" =>
        \A c \in Columns :
            LET F == functions_by_address[c]
                B == basic_blocks_by_address[c]
            IN  /\ \A a, b \in DOMAIN F :
                      F[a].match.id = F[b].match.id => a = b
                /\ \A f \in DOMAIN F : \A a, b \in F[f].basic_blocks :
                      B[a].match.id = B[b].match.id => a = b

\* The address reached in column i by following address_in_next from the
\* function at address a of column 0; 0 when the chain breaks before.
RECURSIVE ChainAddress(_, _)
ChainAddress(a, i) ==
    IF i = 0 THEN a
    ELSE LET p == ChainAddress(a, i - 1)
         IN  IF p = 0 THEN 0
             ELSE LET t == functions_by_address[i - 1][p].match.address_in_next
                  IN  IF t \in DOMAIN functions_by_address[i] THEN t ELSE 0

\* C5 as claimed: after PropagateIds a function or basic block of column
\* i >= 1 has id k only if an entity of column i-1 with id k has it as its
\* address_in_next; and the id of a chain of column 0 that breaks at column
\* j is the id of no function of a later column, nor found there by
\* FindFunctionById once the id indices are built.
C5_NoWrongEntity ==
    pc = "propagated" =>
        /\ \A i \in 1..LastCol : \A l \in 1..2 :
              LET prev == OwningIndices[l][i - 1]
                  cur == OwningIndices[l][i]
              IN  \A t \in DOMAIN cur : \E a \in DOMAIN prev :
                     /\ prev[a].match.id = cur[t].match.id
                     /\ prev[a].match.address_in_next = t
        /\ \A a \in DOMAIN functions_by_address[0] : \A i \in 1..LastCol :
              ChainAddress(a, i) = 0 =>
                 LET k == functions_by_address[0][a].match.id
                 IN  /\ k \notin Ids(functions_by_address[i])
                     /\ builds >= 1 => FindFunctionById(i, k) = nullptr

C7_ChainTermination ==
    pc # "populate" =>
        \A l \in 1..3 :
            LET prev == OwningIndices[l][LastCol - 1]
                cur == OwningIndices[l][LastCol]
            IN  \A a \in DOMAIN prev :
                   LET t == prev[a].match.address_in_next
                   IN  t # 0 =>
                          /\ t \in DOMAIN cur
                          /\ cur[t].match.address = t
                          /\ cur[t].match.address_in_next = 0

\* FinishChain has run on a previous column with a successor at each level.
C7_Witness ==
    /\ pc = "finished"
    /\ \A l \in 1..3 :
          \E a \in DOMAIN OwningIndices[l][LastCol - 1] :
             OwningIndices[l][LastCol - 1][a].match.address_in_next # 0

\* The filter of a column rejects the address.
FilterRejects(c, address) ==
    \/ /\ function_filter[c] = FILTER_BLACKLIST
       /\ address \in filtered_functions[c]
    \/ /\ function_filter[c] = FILTER_WHITELIST
       /\ address \notin filtered_functions[c]

\* The call returned no entity and left the indices as they were.
NoEntityReturned == ret' = nullptr /\ UNCHANGED indices

\* The call returned the new function, stored under match.address.
FunctionReturned(c, match) ==
    /\ ret' = <<"function", c, match[1]>>
    /\ match[1] \in DOMAIN functions_by_address'[c]
    /\ functions_by_address'[c][match[1]] = MatchedFunction(match)

\* C8 as claimed: InsertFunctionMatch returns no entity and leaves the
\* indices unchanged exactly when the filter rejects match.address; in
\* every other case it returns the new function, stored under match.address.
C8_FunctionFilter ==
    [][\A c \in DiffColumns, match \in MemoryAddressPairs :
          InsertFunctionMatch(c, match) =>
             /\ NoEntityReturned <=> FilterRejects(c, match[1])
             /\ ~FilterRejects(c, match[1]) => FunctionReturned(c, match)]_vars

\* C8 as amended: the same for an address that is not yet a key of
\* functions_by_address; the call for a key that is neither rejected nor
\* new returns nothing: it aborts and leaves the indices unchanged.
C8_FunctionFilterNewAddress ==
    [][\A c \in DiffColumns, match \in MemoryAddressPairs :
          InsertFunctionMatch(c, match) =>
             IF FilterRejects(c, match[1])
             THEN NoEntityReturned /\ ~aborted'
             ELSE IF match[1] \in DOMAIN functions_by_address[c]
             THEN aborted' /\ UNCHANGED indices
             ELSE FunctionReturned(c, match) /\ ~NoEntityReturned]_vars

\* A whitelist column has admitted one function and rejected another.
C8_Witness ==
    /\ pc = "populate" /\ ~aborted
    /\ ret = nullptr
    /\ \E c \in DiffColumns :
          /\ function_filter[c] = FILTER_WHITELIST
          /\ functions_by_address[c] # EmptyIndex

\* No two functions of a column filled from a diff have the same
\* non-sentinel address_in_next: the matches of a diff are one to one.
OneToOne ==
    \A c \in DiffColumns : \A a, b \in DOMAIN functions_by_address[c] :
        LET t == functions_by_address[c][a].match.address_in_next
        IN  (t # 0 /\ functions_by_address[c][b].match.address_in_next = t)
               => a = b

\* C9 as claimed, for a table of one-to-one diffs: after FinishChain,
\* PropagateIds and BuildIdIndices, FindFunctionById of the id of a function
\* of column 0 returns, in every column its chain reaches unbroken, the
\* function at the address the chain reaches; and the address the chain has
\* in the last binary is a terminal entry of the last column.
C9_RoundTrip ==
    (pc = "propagated" /\ builds >= 1 /\ OneToOne) =>
        \A a \in DOMAIN functions_by_address[0] :
            /\ \A i \in Columns :
                  ChainAddress(a, i) # 0 =>
                     FindFunctionById(i, functions_by_address[0][a].match.id)
                        = <<"function", i, ChainAddress(a, i)>>
            /\ LET p == ChainAddress(a, LastCol - 1)
                   t == functions_by_address[LastCol - 1][p].match.address_in_next
               IN  (p # 0 /\ t # 0) =>
                      /\ t \in DOMAIN functions_by_address[LastCol]
                      /\ functions_by_address[LastCol][t].match.address_in_next = 0

C11_ScopedBasicBlockIds ==
    pc = "propagated" =>
        /\ \A f \in DOMAIN functions_by_address[0] :
              LET blocks == functions_by_address[0][f].basic_blocks
              IN  blocks # {} =>
                     basic_blocks_by_address[0][Min(blocks)].match.id = 0
        /\ builds >= 1 =>
              \A c \in Columns : \A f, g \in DOMAIN functions_by_address[c] :
                 \A a \in functions_by_address[c][f].basic_blocks :
                    \A b \in functions_by_address[c][g].basic_blocks :
                       (/\ f # g /\ a # b
                        /\ basic_blocks_by_address[c][a].match.id = 0
                        /\ basic_blocks_by_address[c][b].match.id = 0)
                          => \E k \in DOMAIN basic_blocks_by_id[c] :
                                FindBasicBlockById(c, k) = <<"basic_block", c, a>>

\* The call failed loudly and left every entity as it was.
FailedLoudly == aborted' /\ ret' = nullptr /\ UNCHANGED indices

FirstAssignmentKept ==
    \A i \in 1..LastCol : \A t \in DOMAIN functions_by_address[i] :
        Predecessors(i, t) # {} =>
            functions_by_address[i][t].match.id =
                functions_by_address[i - 1][Min(Predecessors(i, t))].match.id

\* C13 as claimed: the id PropagateIds assigns to a function is changed by
\* no later step of the same propagation, also when two functions of
\* column i-1 with different ids have the same address_in_next, and by no
\* later BuildIdIndices call.
C13_IdentityStable ==
    [][/\ (pc # "propagated" /\ pc' = "propagated") => FirstAssignmentKept'
       /\ (pc = "propagated" /\ builds' = builds + 1)
             => UNCHANGED OwningIndices]_vars

----------------------------------------------------------------------------
(* Loaders that offer any address.                                         *)

\* The insertions take any Address: nothing in them tells the primary
\* address 0 from another.
AnyAddresses == 0 .. MaxAddr
AnyAddressPairs == AnyAddresses \X NextAddresses

\* One function with a basic block and an instruction.
InitAnyAddress == Init /\ workload = <<1, 1, 1, 0, 1>>

NextAnyAddress ==
    \/ Loading /\ \E c \in DiffColumns, match \in AnyAddressPairs :
          InsertFunctionMatch(c, match)
    \/ Loading /\ \E c \in DiffColumns, function \in AnyAddresses,
                     match \in AnyAddressPairs :
          InsertBasicBlockMatch(c, function, match)
    \/ Loading /\ \E c \in DiffColumns, basic_block \in AnyAddresses,
                     match \in AnyAddressPairs :
          InsertInstructionMatch(c, basic_block, match)
    \/ FinishChain(LastCol, LastCol - 1)
    \/ PropagateIds
    \/ BuildIdIndices

SpecAnyAddress == InitAnyAddress /\ [][NextAnyAddress]_vars

Current(by_id, index) ==
    \A k \in DOMAIN by_id :
        by_id[k] \in DOMAIN index /\ index[by_id[k]].match.id = k

\* C15 as claimed: in every state, an entity FindFunctionById or
\* FindBasicBlockById returns for an id is in the owning index of the column
\* and has that id; and when an id was assigned after the last
\* BuildIdIndices call the lookups return nothing.
C15_NoStaleLookup ==
    \A c \in Columns :
        /\ Current(functions_by_id[c], functions_by_address[c])
        /\ Current(basic_blocks_by_id[c], basic_blocks_by_address[c])
        /\ (pc = "propagated" /\ builds = 0) =>
              \A k \in 0 .. MaxAddr :
                 /\ FindFunctionById(c, k) = nullptr
                 /\ FindBasicBlockById(c, k) = nullptr

\* The owning indices of a column.
Contents(c) ==
    <<functions_by_address[c], basic_blocks_by_address[c],
      instructions_by_address[c]>>

\* The addresses of level l a FinishChain call made now adds to the last
\* column.
TerminalEntries(l) ==
    {OwningIndices[l][LastCol - 1][a].match.address_in_next :
        a \in DOMAIN OwningIndices[l][LastCol - 1]} \ {0}

\* An insertion into a column changes the contents of no other column.
InsertionsIndependent ==
    \A c, d \in Columns :
        (/\ pc = "populate" /\ pc' = "populate"
         /\ Contents(c)' # Contents(c) /\ d # c)
            => Contents(d)' = Contents(d)

----------------------------------------------------------------------------
(* Loaders that offer three functions and two basic blocks.                *)

InitThreading ==
    /\ function_filter = [c \in Columns |-> FILTER_NONE]
    /\ filtered_functions = [c \in Columns |-> {}]
    /\ functions_by_address = [c \in Columns |-> EmptyIndex]
    /\ basic_blocks_by_address = [c \in Columns |-> EmptyIndex]
    /\ instructions_by_address = [c \in Columns |-> EmptyIndex]
    /\ functions_by_id = [c \in Columns |-> EmptyIndex]
    /\ basic_blocks_by_id = [c \in Columns |-> EmptyIndex]
    /\ workload = <<3, 2, 0, 0, 0>>
    /\ pc = "populate"
    /\ builds = 0
    /\ ret = nullptr
    /\ aborted = FALSE

NextThreading ==
    \/ Loading /\ \E c \in DiffColumns, match \in MemoryAddressPairs :
          InsertFunctionMatch(c, match)
    \/ Loading /\ \E c \in DiffColumns, function \in Addresses,
                     match \in MemoryAddressPairs :
          InsertBasicBlockMatch(c, function, match)
    \/ FinishChain(LastCol, LastCol - 1)
    \/ PropagateIds
    \/ BuildIdIndices

SpecThreading == InitThreading /\ [][NextThreading]_vars

\* PropagateFrom with the two levels of a step run one after the other:
\* the functions of column i are threaded first and the basic blocks are
\* threaded into the column the function-level threading left.
RECURSIVE FunctionsFirst(_, _, _)
FunctionsFirst(F, B, i) ==
    IF i > LastCol THEN <<F, B>>
    ELSE LET Fi == ThreadIds(F[i - 1], F[i], DOMAIN F[i - 1], DOMAIN F[i])
             Bi == ThreadBasicBlocks(F[i - 1], B[i - 1], Fi, B[i],
                                     DOMAIN F[i - 1])
         IN  FunctionsFirst([F EXCEPT ![i] = Fi], [B EXCEPT ![i] = Bi], i + 1)

MembersOwned ==
    \A c \in Columns :
        /\ \A f \in DOMAIN functions_by_address[c] :
              functions_by_address[c][f].basic_blocks
                 \subseteq DOMAIN basic_blocks_by_address[c]
        /\ \A b \in DOMAIN basic_blocks_by_address[c] :
              basic_blocks_by_address[c][b].instructions
                 \subseteq DOMAIN instructions_by_address[c]

\* C18: after every insertion and every FinishChain call the members of the
\* basic_blocks and instructions sets are entities of the owning index of
\* the same column; and an InsertBasicBlockMatch or InsertInstructionMatch
\* call with a new address adds the entity to the owning index and to the
\* membership set of its parent, and of no other parent.
C18_ReferentialIntegrity ==
    [][/\ MembersOwned'
       /\ Loading =>
             \A c \in DiffColumns, parent \in Addresses,
                match \in MemoryAddressPairs :
                /\ (/\ match[1] \notin DOMAIN basic_blocks_by_address[c]
                    /\ InsertBasicBlockMatch(c, parent, match)) =>
                      /\ match[1] \in DOMAIN basic_blocks_by_address'[c]
                      /\ {f \in DOMAIN functions_by_address'[c] :
                            match[1] \in functions_by_address'[c][f].basic_blocks}
                            = {parent}
                /\ (/\ match[1] \notin DOMAIN instructions_by_address[c]
                    /\ InsertInstructionMatch(c, parent, match)) =>
                      /\ match[1] \in DOMAIN instructions_by_address'[c]
                      /\ {b \in DOMAIN basic_blocks_by_address'[c] :
                            match[1] \in basic_blocks_by_address'[c][b].instructions}
                            = {parent}]_vars

\* FinishChain has given a function and a basic block of the last column
\* their members, after the insertions gave theirs to the previous column.
C18_Witness ==
    /\ pc = "finished"
    /\ \E f \in DOMAIN functions_by_address[LastCol] :
          functions_by_address[LastCol][f].basic_blocks # {}
    /\ \E b \in DOMAIN basic_blocks_by_address[LastCol] :
          basic_blocks_by_address[LastCol][b].instructions # {}

----------------------------------------------------------------------------
(* The pipeline calls PropagateIds once the table is finished.              *)

SpecPropagates == Spec /\ WF_vars(PropagateIds)

\* The table is finished and waits for the propagation.
Populated == pc \in {"finished", "indexed"} /\ ~aborted

\* Every function of a column i >= 1 with exactly one predecessor has the
\* id of that predecessor, whatever becomes of the other identities.
LinksThreaded ==
    \A i \in 1..LastCol : \A t \in DOMAIN functions_by_address[i] :
        \A a \in Predecessors(i, t) :
            Predecessors(i, t) = {a} =>
                functions_by_address[i][t].match.id =
                    functions_by_address[i - 1][a].match.id

\* C19: for every populated table, with sentinels, missing successors and
\* empty columns, PropagateIds eventually finishes and not in the abort; it
\* has then threaded every link of every column, so a missing successor
\* stops its own identity and no other.
C19_PropagationCompletes ==
    /\ Populated ~> (pc = "propagated" /\ ~aborted)
    /\ [][(Populated /\ pc' = "propagated") =>
             (~aborted' /\ LinksThreaded')]_vars

\* The propagation has finished on a table with an empty last column in
\* which identity 0 lacks its successor, identity 1 is threaded into
\* column 1 and ends there at a sentinel.
C19_Witness ==
    /\ pc = "propagated" /\ ~aborted
    /\ functions_by_address[LastCol] = EmptyIndex
    /\ \E a, b \in DOMAIN functions_by_address[0] :
          LET A == functions_by_address[0][a].match
              B == functions_by_address[0][b].match
          IN  /\ A.id = 0 /\ A.address_in_next # 0
              /\ A.address_in_next \notin DOMAIN functions_by_address[1]
              /\ B.id = 1
              /\ B.address_in_next \in DOMAIN functions_by_address[1]
              /\ functions_by_address[1][B.address_in_next].match.id = 1
              /\ functions_by_address[1][B.address_in_next].match.address_in_next = 0

\* The functions of column c pass its filter, and every basic block and
\* instruction of the column has a parent in the column.
FilterKept(c) ==
    /\ \A a \in DOMAIN functions_by_address[c] : ~FilterRejects(c, a)
    /\ \A b \in DOMAIN basic_blocks_by_address[c] :
          \E f \in DOMAIN functions_by_address[c] :
             b \in functions_by_address[c][f].basic_blocks
    /\ \A n \in DOMAIN instructions_by_address[c] :
          \E b \in DOMAIN basic_blocks_by_address[c] :
             n \in basic_blocks_by_address[c][b].instructions

====
